---- MODULE Spec2Model ----
(***************************************************************************)
(* A model of docs/generate_type_index.py: the generator of                *)
(* docs/TYPE_INDEX.md, which lists every struct and enum of the tree.      *)
(*                                                                         *)
(* Text is modelled at the level of characters: a character is a string    *)
(* of length one, a Python str is a sequence of characters, a path is the  *)
(* sequence of its parts (pathlib's Path.parts), and a file's text is the  *)
(* sequence of its lines (what text.splitlines() returns).                 *)
(***************************************************************************)
EXTENDS Integers, Sequences, FiniteSets, TLC

(***************************************************************************)
(* Bounds of the model.                                                    *)
(***************************************************************************)
\* The number of lines of all the files of a tree together.
MaxTotalLines == 4

(***************************************************************************)
(* Characters and their order.                                             *)
(***************************************************************************)
\* The grave accent (code point 96), which a TLA+ string cannot hold.
Backquote == "(backquote)"

\* The printable ASCII characters in code point order, from 32 (space).
Ascii ==
  <<" ", "!", "\"", "#", "$", "%", "&", "'", "(", ")", "*", "+", ",", "-",
    ".", "/", "0", "1", "2", "3", "4", "5", "6", "7", "8", "9", ":", ";",
    "<", "=", ">", "?", "@", "A", "B", "C", "D", "E", "F", "G", "H", "I",
    "J", "K", "L", "M", "N", "O", "P", "Q", "R", "S", "T", "U", "V", "W",
    "X", "Y", "Z", "[", "\\", "]", "^", "_", Backquote, "a", "b", "c", "d", "e",
    "f", "g", "h", "i", "j", "k", "l", "m", "n", "o", "p", "q", "r", "s",
    "t", "u", "v", "w", "x", "y", "z", "{", "|", "}", "~">>

Chars == {Ascii[i] : i \in 1..Len(Ascii)} \cup {"\t"}

\* ord(c): the code point of a character.
Ord[c \in Chars] ==
  IF c = "\t" THEN 9 ELSE 31 + (CHOOSE i \in 1..Len(Ascii) : Ascii[i] = c)

\* Python's a < b on two str: lexicographic by code point.
RECURSIVE StrLess(_, _)
StrLess(a, b) ==
  IF b = <<>> THEN FALSE
  ELSE IF a = <<>> THEN TRUE
  ELSE IF Head(a) = Head(b) THEN StrLess(Tail(a), Tail(b))
  ELSE Ord[Head(a)] < Ord[Head(b)]

\* c.lower(), and a.lower() < b.lower().
Lower(c) == IF Ord[c] \in 65..90 THEN Ascii[Ord[c] + 32 - 31] ELSE c

RECURSIVE StrLessIgnoreCase(_, _)
StrLessIgnoreCase(a, b) ==
  IF b = <<>> THEN FALSE
  ELSE IF a = <<>> THEN TRUE
  ELSE IF Lower(Head(a)) = Lower(Head(b))
       THEN StrLessIgnoreCase(Tail(a), Tail(b))
  ELSE Ord[Lower(Head(a))] < Ord[Lower(Head(b))]

\* A faulty NameLess: the key item[0].lower().
NameLessIgnoreCase(a, b) == StrLessIgnoreCase(a, b)

\* The key of types.sort: item[0], compared with <.
NameLess(a, b) == StrLess(a, b)

\* pathlib's p < q on two paths: their parts compared as lists of str.
RECURSIVE PathLess(_, _)
PathLess(p, q) ==
  IF q = <<>> THEN FALSE
  ELSE IF p = <<>> THEN TRUE
  ELSE IF Head(p) = Head(q) THEN PathLess(Tail(p), Tail(q))
  ELSE StrLess(Head(p), Head(q))

\* str(n) of a natural number: its decimal digits.
RECURSIVE Str(_)
Str(n) ==
  IF n < 10 THEN <<Ascii[n + 17]>>
  ELSE Str(n \div 10) \o <<Ascii[(n % 10) + 17]>>

\* sep.join(parts): the parts' characters with sep between them.
RECURSIVE Join(_, _)
Join(sep, parts) ==
  IF parts = <<>> THEN <<>>
  ELSE IF Len(parts) = 1 THEN parts[1]
  ELSE parts[1] \o sep \o Join(sep, Tail(parts))

(***************************************************************************)
(* The module's constants.                                                 *)
(***************************************************************************)
GitDir == <<".", "g", "i", "t">>
TargetDir == <<"t", "a", "r", "g", "e", "t">>
NodeModulesDir == <<"n", "o", "d", "e", "_", "m", "o", "d", "u", "l", "e", "s">>

IGNORE_DIRS == {GitDir, TargetDir, NodeModulesDir}

\* The literals of PATTERN.
Pub == <<"p", "u", "b">>
Struct == <<"s", "t", "r", "u", "c", "t">>
Enum == <<"e", "n", "u", "m">>

(***************************************************************************)
(* PATTERN and the scan of one file's lines.                               *)
(***************************************************************************)
\* \s, and what str.lstrip() strips, among the characters of a line.
IsSpace(c) == c \in {" ", "\t"}

\* [A-Z]
IsUpper(c) == Ord[c] \in 65..90

\* [A-Za-z0-9_]
IsWord(c) == Ord[c] \in 65..90 \/ Ord[c] \in 97..122 \/ Ord[c] \in 48..57 \/ c = "_"

\* The index after the longest run of whitespace that starts at i (\s*).
RECURSIVE SkipSpaces(_, _)
SkipSpaces(line, i) ==
  IF i <= Len(line) /\ IsSpace(line[i]) THEN SkipSpaces(line, i + 1) ELSE i

\* The index after the longest run of [A-Za-z0-9_] that starts at i.
RECURSIVE SkipWord(_, _)
SkipWord(line, i) ==
  IF i <= Len(line) /\ IsWord(line[i]) THEN SkipWord(line, i + 1) ELSE i

\* The index after the longest run of [^)] that starts at i.
RECURSIVE SkipToParen(_, _)
SkipToParen(line, i) ==
  IF i <= Len(line) /\ line[i] # ")" THEN SkipToParen(line, i + 1) ELSE i

\* Whether lit is in line at index i.
LitAt(line, i, lit) ==
  /\ i + Len(lit) - 1 <= Len(line)
  /\ SubSeq(line, i, i + Len(lit) - 1) = lit

\* line.lstrip()
lstrip(line) == SubSeq(line, SkipSpaces(line, 1), Len(line))

\* str.startswith
startswith(s, prefix) == LitAt(s, 1, prefix)

\* A faulty IsCommentLine: a comment marker anywhere in the line.
IsCommentLineAnywhere(line) ==
  \E i \in 1..Len(line) : LitAt(line, i, <<"/", "/">>) \/ LitAt(line, i, <<"/", "*">>)

\* Whether the loop skips the line as a comment.
IsCommentLine(line) ==
  LET stripped == lstrip(line)
  IN  startswith(stripped, <<"/", "/">>) \/ startswith(stripped, <<"/", "*">>)

NoMatch == [ok |-> FALSE, kind |-> <<>>, name |-> <<>>]

\* PATTERN.match(line): ok, and then group 2 (kind) and group 3 (name).
\*   ^\s*(pub(?:\([^)]*\))?\s+)?(struct|enum)\s+([A-Z][A-Za-z0-9_]*)
\* Every repetition is followed by a character its class excludes, so the
\* greedy reading is the only one that can match, and a group 1 that starts
\* to match ("pub") and fails leaves "pub" where (struct|enum) must be.
PATTERN_match(line) ==
  LET i0 == SkipSpaces(line, 1)
      afterPub == i0 + Len(Pub)
      close == SkipToParen(line, afterPub + 1)
      afterScope == IF LitAt(line, afterPub, <<"(">>) /\ close <= Len(line)
                    THEN close + 1 ELSE afterPub
      afterVis == SkipSpaces(line, afterScope)
      hasVis == LitAt(line, i0, Pub) /\ afterVis > afterScope
      i1 == IF hasVis THEN afterVis ELSE i0
      kind == IF LitAt(line, i1, Struct) THEN Struct
              ELSE IF LitAt(line, i1, Enum) THEN Enum ELSE <<>>
      i2 == i1 + Len(kind)
      i3 == SkipSpaces(line, i2)
  IN  IF kind # <<>> /\ i3 > i2 /\ i3 <= Len(line) /\ IsUpper(line[i3])
      THEN [ok |-> TRUE, kind |-> kind,
            name |-> SubSeq(line, i3, SkipWord(line, i3 + 1) - 1)]
      ELSE NoMatch

\* The body of the loop over the lines, from line idx on: the records
\* (name, kind, path, idx) appended to types, in order.
RECURSIVE ScanFrom(_, _, _)
ScanFrom(path, lines, idx) ==
  IF idx > Len(lines) THEN <<>>
  ELSE LET line == lines[idx]
           match == PATTERN_match(line)
       IN  IF IsCommentLine(line) \/ ~match.ok
           THEN ScanFrom(path, lines, idx + 1)
           ELSE <<<<match.name, match.kind, path, idx>>>>
                \o ScanFrom(path, lines, idx + 1)

\* for idx, line in enumerate(text.splitlines(), start=1): ...
ScanText(path, lines) == ScanFrom(path, lines, 1)

(***************************************************************************)
(* Paths.                                                                  *)
(***************************************************************************)
\* A faulty should_skip: only the parent directory's name is looked at.
should_skipParent(path) == Len(path) >= 2 /\ path[Len(path) - 1] \in IGNORE_DIRS

\* any(part in IGNORE_DIRS for part in path.parts)
should_skip(path) == \E i \in 1..Len(path) : path[i] \in IGNORE_DIRS

\* path.relative_to(root), for a path under root.
relative_to(path, root) == SubSeq(path, Len(root) + 1, Len(path))

\* rel.as_posix(), and str(rel) on a POSIX system.
as_posix(rel) == Join(<<"/">>, rel)

\* Whether a file name matches the pattern "*.rs".
MatchesRs(name) ==
  /\ Len(name) >= 3
  /\ SubSeq(name, Len(name) - 2, Len(name)) = <<".", "r", "s">>

\* ROOT / "docs" / "TYPE_INDEX.md", relative to ROOT.
DestRel ==
  << <<"d", "o", "c", "s">>,
     <<"T", "Y", "P", "E", "_", "I", "N", "D", "E", "X", ".", "m", "d">> >>

\* A faulty InsertPath: no sorting, the order of enumeration is kept.
InsertPathLast(p, s) == s \o <<p>>

\* sorted(...) on paths, one insertion: p goes before the first greater path.
RECURSIVE InsertPath(_, _)
InsertPath(p, s) ==
  IF s = <<>> THEN <<p>>
  ELSE IF PathLess(p, Head(s)) THEN <<p>> \o s
  ELSE <<Head(s)>> \o InsertPath(p, Tail(s))

RECURSIVE sorted(_)
sorted(paths) ==
  IF paths = <<>> THEN <<>>
  ELSE InsertPath(paths[Len(paths)], sorted(SubSeq(paths, 1, Len(paths) - 1)))

\* types.sort(key=lambda item: item[0]): a stable sort by name.
RECURSIVE InsertByName(_, _)
InsertByName(item, s) ==
  IF s = <<>> THEN <<item>>
  ELSE IF NameLess(item[1], Head(s)[1]) THEN <<item>> \o s
  ELSE <<Head(s)>> \o InsertByName(item, Tail(s))

RECURSIVE SortByName(_)
SortByName(items) ==
  IF items = <<>> THEN <<>>
  ELSE InsertByName(items[Len(items)],
                    SortByName(SubSeq(items, 1, Len(items) - 1)))

(***************************************************************************)
(* seen, a dict in insertion order: a sequence of <<name, locations>>.     *)
(***************************************************************************)
\* seen.setdefault(name, []).append(loc)
SeenAdd(d, name, loc) ==
  IF \E i \in 1..Len(d) : d[i][1] = name
  THEN [i \in 1..Len(d) |->
          IF d[i][1] = name THEN <<name, Append(d[i][2], loc)>> ELSE d[i]]
  ELSE Append(d, <<name, <<loc>>>>)

\* seen after the records of one file, each added in order.
RECURSIVE SeenAddAll(_, _)
SeenAddAll(d, recs) ==
  IF recs = <<>> THEN d
  ELSE SeenAddAll(SeenAdd(d, recs[1][1], <<recs[1][3], recs[1][4]>>), Tail(recs))

\* A faulty Duplicates: len(locs) > 2.
DuplicatesOverTwo(d) == SelectSeq(d, LAMBDA e : Len(e[2]) > 2)

\* {name: locs for name, locs in seen.items() if len(locs) > 1}
Duplicates(d) == SelectSeq(d, LAMBDA e : Len(e[2]) > 1)

\* print(f"  {name}: {rel}#L{line}") for the locations from the i-th on.
RECURSIVE LocationLinesFrom(_, _, _, _)
LocationLinesFrom(name, locs, root, i) ==
  IF i > Len(locs) THEN <<>>
  ELSE << <<" ", " ">> \o name \o <<":", " ">>
          \o as_posix(relative_to(locs[i][1], root))
          \o <<"#", "L">> \o Str(locs[i][2]) >>
       \o LocationLinesFrom(name, locs, root, i + 1)

\* A faulty LocationLines: only the first two locations are printed.
LocationLinesFirstTwo(name, locs, root) ==
  LocationLinesFrom(name, SubSeq(locs, 1, IF Len(locs) < 2 THEN Len(locs) ELSE 2), root, 1)

\* for path, line in locations: print(f"  {name}: {rel}#L{line}")
LocationLines(name, locs, root) == LocationLinesFrom(name, locs, root, 1)

\* A faulty DuplicateLines: for name in sorted(duplicates).
RECURSIVE LinesOfEach(_, _)
LinesOfEach(dups, root) ==
  IF dups = <<>> THEN <<>>
  ELSE LocationLines(dups[1][1], dups[1][2], root) \o LinesOfEach(Tail(dups), root)

DuplicateLinesSorted(dups, root) == LinesOfEach(SortByName(dups), root)

\* for name, locations in duplicates.items(): ... the lines of all of them.
RECURSIVE DuplicateLines(_, _)
DuplicateLines(dups, root) ==
  IF dups = <<>> THEN <<>>
  ELSE LocationLines(dups[1][1], dups[1][2], root)
       \o DuplicateLines(Tail(dups), root)

DuplicatesHeader == <<"Duplicate type definitions found:">>

(***************************************************************************)
(* render_table.  A fixed piece of text is one string.                     *)
(***************************************************************************)
TableHeader ==
  << <<"# Type Index">>,
     <<>>,
     <<"This file lists every ", Backquote, "struct", Backquote, " and ",
       Backquote, "enum", Backquote, " defined in the repository.">>,
     <<>>,
     <<"| Type | Kind | Location |">>,
     <<"| --- | --- | --- |">> >>

TableTrailer ==
  << <<>>,
     <<"Generated automatically to support DRY efforts.">>,
     <<>>,
     <<"Run ", Backquote, "python docs/generate_type_index.py", Backquote,
       " to regenerate.">>,
     <<>> >>

\* f"| {name} | {kind} | `{rel}#L{line}` |"
TableRow(item, root) ==
  <<"|", " ">> \o item[1] \o <<" ", "|", " ">> \o item[2]
  \o <<" ", "|", " ", Backquote>> \o as_posix(relative_to(item[3], root))
  \o <<"#", "L">> \o Str(item[4]) \o <<Backquote, " ", "|">>

RECURSIVE TableRows(_, _)
TableRows(items, root) ==
  IF items = <<>> THEN <<>>
  ELSE <<TableRow(items[1], root)>> \o TableRows(Tail(items), root)

\* render_table(types): "\n".join(lines)
render_table(items, root) ==
  Join(<<"\n">>, TableHeader \o TableRows(items, root) \o TableTrailer)

\* f"Wrote {output_path.relative_to(ROOT)} with {len(types)} entries."
Summary(items) ==
  <<"Wrote ">> \o as_posix(DestRel) \o <<" with ">> \o Str(Len(items))
  \o <<" entries.">>

(***************************************************************************)
(* The inputs: where the repository is, and the tree under it.             *)
(***************************************************************************)
\* The directories ROOT may be: one with no ignored name among its parts,
\* and one under a directory named "target".
CleanRoot == << <<"/">>, <<"s", "r", "v">>, <<"r", "e", "p", "o">> >>
RootUnderTarget == << <<"/">>, TargetDir, <<"r", "e", "p", "o">> >>

Roots == {CleanRoot, RootUnderTarget}

\* The source files a tree may hold, relative to ROOT: lib.rs, src/a.rs and
\* src/target/x/b.rs, which has an ignored name above its parent directory.
LibRs == << <<"l", "i", "b", ".", "r", "s">> >>
SrcARs == << <<"s", "r", "c">>, <<"a", ".", "r", "s">> >>
DeepRs == << <<"s", "r", "c">>, TargetDir, <<"x">>, <<"b", ".", "r", "s">> >>

\* The lines a file may hold.
LineStructBa == <<"s", "t", "r", "u", "c", "t", " ", "B", "a">>
LinePubEnumBB ==
  <<"p", "u", "b", " ", "e", "n", "u", "m", " ", "B", "B", " ", "/", "/", " ", "t">>
LineComment == <<"/", "/", " ", "s", "t", "r", "u", "c", "t", " ", "B", "a">>
LineEnumBa == <<"e", "n", "u", "m", " ", "B", "a">>

Lines == {LineStructBa, LinePubEnumBB, LineComment, LineEnumBa}

\* The lines src/target/x/b.rs may hold: the run never reads that file.
SkippedLines == {LineStructBa}

\* A file of the tree: absent, or bytes that do not decode (read_text raises
\* UnicodeDecodeError), or a text of at least one line.
Absent == [exists |-> FALSE, ok |-> FALSE, lines |-> <<>>]
Undecodable == [exists |-> TRUE, ok |-> FALSE, lines |-> <<>>]

TextsUpTo(n, L) ==
  UNION {{[exists |-> TRUE, ok |-> TRUE, lines |-> t] : t \in [1..k -> L]} : k \in 1..n}

FilesUpTo(n, L) == {Absent, Undecodable} \cup TextsUpTo(n, L)

\* The tree that holds file b1 at lib.rs, b2 at src/a.rs, b3 at src/target/x/b.rs.
TreeOf(b1, b2, b3) ==
  LET at == [p \in {LibRs, SrcARs, DeepRs} |->
               IF p = LibRs THEN b1 ELSE IF p = SrcARs THEN b2 ELSE b3]
  IN  [p \in {q \in {LibRs, SrcARs, DeepRs} : at[q].exists} |-> at[p]]

\* A tree without the files of it that do not decode.
WithoutUndecodable(t) == [p \in {q \in DOMAIN t : t[q].ok} |-> t[p]]

(***************************************************************************)
(* The state.                                                              *)
(***************************************************************************)
VARIABLES
  ROOT,      \* the repository's directory, an absolute path
  tree,      \* the source files under ROOT: relative path -> file
  dest,      \* docs/TYPE_INDEX.md: whether it exists, and its text
  pc,        \* where the run is
  rerun,     \* whether this is the second run, after a first one
  queue,     \* collect_types: the paths the for loop has yet to visit
  types,     \* collect_types: types
  seen,      \* collect_types: seen
  output,    \* main: output
  stderr,    \* the lines printed to sys.stderr
  stdout,    \* the lines printed to sys.stdout
  exitCode,  \* <<>> while the run goes on, then <<status>>
  writes,    \* the number of times this run wrote docs/TYPE_INDEX.md
  prev,      \* in the second run, the first one: its tree and what it produced
  scanText,  \* ScanSpec: the lines given to the scan
  scanOut    \* ScanSpec: whether they were scanned, and the records

vars ==
  <<ROOT, tree, dest, pc, rerun, queue, types, seen, output, stderr, stdout,
    exitCode, writes, prev, scanText, scanOut>>

NoPrev ==
  [tree |-> <<>>, types |-> <<>>, exitCode |-> <<>>, stderr |-> <<>>, stdout |-> <<>>,
   dest |-> [exists |-> FALSE, text |-> <<>>], wrote |-> FALSE]

NotScanned == [done |-> FALSE, records |-> <<>>]

\* The tree, and the script about to run for the first time.
TreeInit ==
  /\ \E b1 \in FilesUpTo(MaxTotalLines, Lines) :
       \E b2 \in FilesUpTo(MaxTotalLines - Len(b1.lines), Lines) :
         \E b3 \in FilesUpTo(MaxTotalLines - Len(b1.lines) - Len(b2.lines), SkippedLines) :
           tree = TreeOf(b1, b2, b3)
  /\ dest = [exists |-> FALSE, text |-> <<>>]
  /\ pc = "main"
  /\ rerun = FALSE
  /\ queue = <<>>
  /\ types = <<>>
  /\ seen = <<>>
  /\ output = <<>>
  /\ stderr = <<>>
  /\ stdout = <<>>
  /\ exitCode = <<>>
  /\ writes = 0
  /\ prev = NoPrev
  /\ scanText = <<>>
  /\ scanOut = NotScanned

\* The repository in a directory with no ignored name among its parts.
Init == ROOT = CleanRoot /\ TreeInit

\* The repository in any of Roots.
RootInit == ROOT \in Roots /\ TreeInit

(***************************************************************************)
(* collect_types                                                           *)
(***************************************************************************)
\* The files under ROOT, relative to it: the tree's and, once written, the report.
FilesUnderRoot == DOMAIN tree \cup (IF dest.exists THEN {DestRel} ELSE {})

\* ROOT.rglob("*.rs"): the paths the generator yields, as a set.
rglob == {ROOT \o rel : rel \in {f \in FilesUnderRoot : MatchesRs(f[Len(f)])}}

\* The orders in which the file system may enumerate a set of paths.
Orders(S) ==
  {o \in [1..Cardinality(S) -> S] : \A i, j \in 1..Cardinality(S) : i # j => o[i] # o[j]}

\* for path in sorted(ROOT.rglob("*.rs")): the loop's paths, in its order.
Walk ==
  /\ pc = "main"
  /\ \E order \in Orders(rglob) : queue' = sorted(order)
  /\ pc' = "loop"
  /\ UNCHANGED <<ROOT, tree, dest, rerun, types, seen, output, stderr, stdout,
                 exitCode, writes, prev, scanText, scanOut>>

\* if should_skip(path): continue
SkipPath ==
  /\ pc = "loop"
  /\ queue # <<>>
  /\ should_skip(Head(queue))
  /\ queue' = Tail(queue)
  /\ UNCHANGED <<ROOT, tree, dest, pc, rerun, types, seen, output, stderr, stdout,
                 exitCode, writes, prev, scanText, scanOut>>

\* A faulty DecodeError: no try, the UnicodeDecodeError ends the run.
DecodeErrorRaised ==
  /\ pc = "loop"
  /\ queue # <<>>
  /\ ~should_skip(Head(queue))
  /\ ~tree[relative_to(Head(queue), ROOT)].ok
  /\ stderr' = Append(stderr, <<"Traceback (most recent call last):">>)
  /\ exitCode' = <<1>>
  /\ pc' = "failed"
  /\ UNCHANGED <<ROOT, tree, dest, rerun, queue, types, seen, output, stdout,
                 writes, prev, scanText, scanOut>>

\* try: text = path.read_text() / except UnicodeDecodeError: continue
DecodeError ==
  /\ pc = "loop"
  /\ queue # <<>>
  /\ ~should_skip(Head(queue))
  /\ ~tree[relative_to(Head(queue), ROOT)].ok
  /\ queue' = Tail(queue)
  /\ UNCHANGED <<ROOT, tree, dest, pc, rerun, types, seen, output, stderr, stdout,
                 exitCode, writes, prev, scanText, scanOut>>

\* The loop over the lines of one file that reads as text.
ScanFile ==
  /\ pc = "loop"
  /\ queue # <<>>
  /\ ~should_skip(Head(queue))
  /\ tree[relative_to(Head(queue), ROOT)].ok
  /\ LET recs == ScanText(Head(queue), tree[relative_to(Head(queue), ROOT)].lines)
     IN  /\ types' = types \o recs
         /\ seen' = SeenAddAll(seen, recs)
  /\ queue' = Tail(queue)
  /\ UNCHANGED <<ROOT, tree, dest, pc, rerun, output, stderr, stdout,
                 exitCode, writes, prev, scanText, scanOut>>

\* A faulty ReportDuplicates: no sys.exit(1) after the lines are printed.
ReportDuplicatesNoExit ==
  /\ pc = "loop"
  /\ queue = <<>>
  /\ Duplicates(seen) # <<>>
  /\ stderr' = stderr \o <<DuplicatesHeader>> \o DuplicateLines(Duplicates(seen), ROOT)
  /\ types' = SortByName(types)
  /\ pc' = "render"
  /\ UNCHANGED <<ROOT, tree, dest, rerun, queue, seen, output, stdout,
                 exitCode, writes, prev, scanText, scanOut>>

\* if duplicates: print them to sys.stderr and sys.exit(1)
ReportDuplicates ==
  /\ pc = "loop"
  /\ queue = <<>>
  /\ Duplicates(seen) # <<>>
  /\ stderr' = stderr \o <<DuplicatesHeader>> \o DuplicateLines(Duplicates(seen), ROOT)
  /\ exitCode' = <<1>>
  /\ pc' = "failed"
  /\ UNCHANGED <<ROOT, tree, dest, rerun, queue, types, seen, output, stdout,
                 writes, prev, scanText, scanOut>>

\* No duplicates: types.sort(key=lambda item: item[0]); return types
SortTypes ==
  /\ pc = "loop"
  /\ queue = <<>>
  /\ Duplicates(seen) = <<>>
  /\ types' = SortByName(types)
  /\ pc' = "render"
  /\ UNCHANGED <<ROOT, tree, dest, rerun, queue, seen, output, stderr, stdout,
                 exitCode, writes, prev, scanText, scanOut>>

(***************************************************************************)
(* main                                                                    *)
(***************************************************************************)
\* output = render_table(types)
RenderTable ==
  /\ pc = "render"
  /\ output' = render_table(types, ROOT)
  /\ pc' = "write"
  /\ UNCHANGED <<ROOT, tree, dest, rerun, queue, types, seen, stderr, stdout,
                 exitCode, writes, prev, scanText, scanOut>>

\* output_path.write_text(output); print(...); and the script ends.
WriteReport ==
  /\ pc = "write"
  /\ dest' = [exists |-> TRUE, text |-> output]
  /\ writes' = writes + 1
  /\ stdout' = Append(stdout, Summary(types))
  /\ exitCode' = <<0>>
  /\ pc' = "succeeded"
  /\ UNCHANGED <<ROOT, tree, rerun, queue, types, seen, output, stderr,
                 prev, scanText, scanOut>>

(***************************************************************************)
(* The script run a second time, to compare the two runs: on the tree as   *)
(* it is, or with the files that do not decode removed from it.            *)
(* docs/TYPE_INDEX.md stays as the first run left it.                      *)
(***************************************************************************)
Rerun ==
  /\ pc \in {"succeeded", "failed"}
  /\ ~rerun
  /\ prev' = [tree |-> tree, types |-> types, exitCode |-> exitCode, stderr |-> stderr,
              stdout |-> stdout, dest |-> dest, wrote |-> writes > 0]
  /\ tree' \in {tree, WithoutUndecodable(tree)}
  /\ rerun' = TRUE
  /\ pc' = "main"
  /\ queue' = <<>>
  /\ types' = <<>>
  /\ seen' = <<>>
  /\ output' = <<>>
  /\ stderr' = <<>>
  /\ stdout' = <<>>
  /\ exitCode' = <<>>
  /\ writes' = 0
  /\ UNCHANGED <<ROOT, dest, scanText, scanOut>>

Next ==
  \/ Walk
  \/ SkipPath
  \/ DecodeError
  \/ ScanFile
  \/ ReportDuplicates
  \/ SortTypes
  \/ RenderTable
  \/ WriteReport
  \/ Rerun

Spec == Init /\ [][Next]_vars

RootSpec == RootInit /\ [][Next]_vars

(***************************************************************************)
(* ScanSpec: the scan of a file's lines alone, on lines put together from  *)
(* an indentation, a comment opener, a visibility, a keyword, a gap, an    *)
(* identifier and a tail.                                                  *)
(***************************************************************************)
Indents == {<<>>, <<" ">>, <<"\t", " ">>}
Openers == {<<>>, <<"/", "/", " ">>, <<"/", "*", " ", "c", " ", "*", "/", " ">>, <<"/", "*">>}
GoodVisibilities ==
  {<<>>, <<"p", "u", "b", " ">>,
   <<"p", "u", "b", "(", "c", "r", "a", "t", "e", ")", " ">>}
Visibilities == GoodVisibilities \cup {<<"p", "u", "b", "(">>, <<"p", "u", "b">>}
Keywords == {Struct, Enum, <<"f", "n">>}
Gaps == {<<" ">>, <<>>}
UpperIdents == {<<"B", "a">>, <<"B", "B">>, <<"B", "_", "1">>}
Idents == UpperIdents \cup {<<"b", "a">>}
CommentTails == {<<" ", "/", "/", " ", "t">>, <<" ", "/", "*", " ", "t", " ", "*", "/">>}
Tails == CommentTails \cup {<<>>, <<"<", "T", ">", " ", "{">>}

ScanLines ==
  {i \o o \o v \o k \o g \o n \o t :
     i \in Indents, o \in Openers, v \in Visibilities, k \in Keywords,
     g \in Gaps, n \in Idents, t \in Tails}

\* The path the scanned lines are read from.
ScanPath == CleanRoot \o LibRs

\* A closed block comment with a declaration after it.
LineBlockComment ==
  <<"/", "*", " ", "c", " ", "*", "/", " ", "s", "t", "r", "u", "c", "t", " ", "B", "a">>

\* A text of one line, or of LineBlockComment and one line.
ScanInit ==
  /\ \E line \in ScanLines : scanText \in {<<line>>, <<LineBlockComment, line>>}
  /\ scanOut = NotScanned
  /\ ROOT = CleanRoot
  /\ tree = <<>>
  /\ dest = [exists |-> FALSE, text |-> <<>>]
  /\ pc = "scan"
  /\ rerun = FALSE
  /\ queue = <<>>
  /\ types = <<>>
  /\ seen = <<>>
  /\ output = <<>>
  /\ stderr = <<>>
  /\ stdout = <<>>
  /\ exitCode = <<>>
  /\ writes = 0
  /\ prev = NoPrev

\* The loop over the lines, run on scanText.
ScanLoop ==
  /\ pc = "scan"
  /\ ~scanOut.done
  /\ scanOut' = [done |-> TRUE, records |-> ScanText(ScanPath, scanText)]
  /\ UNCHANGED <<ROOT, tree, dest, pc, rerun, queue, types, seen, output, stderr,
                 stdout, exitCode, writes, prev, scanText>>

ScanNext == ScanLoop

ScanSpec == ScanInit /\ [][ScanNext]_vars

(***************************************************************************)
(* What the claims are stated with.                                        *)
(***************************************************************************)
\* The index of the first character of a line that is not whitespace.
FirstNonSpace(line) ==
  CHOOSE i \in 1..(Len(line) + 1) :
    /\ \A j \in 1..(i - 1) : line[j] \in {" ", "\t"}
    /\ i <= Len(line) => line[i] \notin {" ", "\t"}

\* The first non-whitespace characters of a line are // or /*.
OpensComment(line) ==
  LET i == FirstNonSpace(line)
  IN  i + 1 <= Len(line) /\ line[i] = "/" /\ line[i + 1] \in {"/", "*"}

\* The records the scan made of line idx of scanText.
ScanRecordsAt(idx) ==
  {k \in 1..Len(scanOut.records) : scanOut.records[k][4] = idx}

\* C6: comment suppression. A line whose first non-whitespace characters are
\* // or /* yields no record, whatever follows on the line; a line that is a
\* declaration (an optional visibility, struct or enum, an identifier that
\* starts with an upper case letter) followed only by a comment yields
\* exactly one record, with the declaration's name and kind and its line.
C6_CommentSuppression ==
  scanOut.done =>
    \A idx \in 1..Len(scanText) :
      /\ OpensComment(scanText[idx]) => ScanRecordsAt(idx) = {}
      /\ \A i \in Indents, v \in GoodVisibilities, k \in {Struct, Enum},
            n \in UpperIdents, t \in CommentTails :
           scanText[idx] = i \o v \o k \o <<" ">> \o n \o t =>
             \E r \in 1..Len(scanOut.records) :
               /\ ScanRecordsAt(idx) = {r}
               /\ scanOut.records[r] = <<n, k, ScanPath, idx>>

\* A block comment line with a declaration after it, then a declaration with
\* a trailing comment: one record, of the second line.
C6_Witness ==
  /\ scanOut.done
  /\ scanText = <<LineBlockComment, LineStructBa \o <<" ", "/", "/", " ", "t">>>>
  /\ scanOut.records = <<<<<<"B", "a">>, Struct, ScanPath, 2>>>>

(***************************************************************************)
(* The tree's declarations, stated without the walk.                       *)
(***************************************************************************)
\* A path has .git, target or node_modules among its parts.
HasIgnoredSegment(path) ==
  {path[i] : i \in 1..Len(path)} \cap {GitDir, TargetDir, NodeModulesDir} # {}

\* The declarations <<name, kind, rel, idx>> of the files rels that decode.
DeclaredIn(rels) ==
  UNION {
    LET lines == tree[rel].lines
        match == [i \in 1..Len(lines) |->
                    IF OpensComment(lines[i]) THEN NoMatch ELSE PATTERN_match(lines[i])]
    IN  {<<match[idx].name, match[idx].kind, rel, idx>> :
           idx \in {i \in 1..Len(lines) : match[i].ok}} :
    rel \in {r \in rels \cap DOMAIN tree : tree[r].ok}}

\* The declarations of the files with no ignored name on their path.
Scanned == DeclaredIn({rel \in DOMAIN tree : ~HasIgnoredSegment(ROOT \o rel)})

\* The declarations of D whose name another declaration of D has.
DuplicatesIn(D) == {x \in D : \E y \in D : y # x /\ y[1] = x[1]}

\* The run has ended.
Ended == pc \in {"succeeded", "failed"}

\* docs/TYPE_INDEX.md as it was when this run began.
DestAtStart == IF rerun THEN prev.dest ELSE [exists |-> FALSE, text |-> <<>>]

\* text.split("\n"): the lines of a text.
RECURSIVE SplitLines(_)
SplitLines(text) ==
  IF \A i \in 1..Len(text) : text[i] # "\n" THEN <<text>>
  ELSE LET i == CHOOSE k \in 1..Len(text) :
                  text[k] = "\n" /\ \A j \in 1..(k - 1) : text[j] # "\n"
       IN  <<SubSeq(text, 1, i - 1)>> \o SplitLines(SubSeq(text, i + 1, Len(text)))

\* The table rows of a report: its lines between the header and the trailer.
RowsOf(text) ==
  LET lines == SplitLines(text)
  IN  SubSeq(lines, Len(TableHeader) + 1, Len(lines) - Len(TableTrailer))

\* The name in a table row: what is between "| " and the next " ".
RowName(row) ==
  SubSeq(row, 3, (CHOOSE k \in 3..Len(row) :
                    row[k] = " " /\ \A j \in 3..(k - 1) : row[j] # " ") - 1)

\* The table row and the diagnostic line of a declaration.
RowFor(d) ==
  <<"|", " ">> \o d[1] \o <<" ", "|", " ">> \o d[2] \o <<" ", "|", " ", Backquote>>
  \o Join(<<"/">>, d[3]) \o <<"#", "L">> \o Str(d[4]) \o <<Backquote, " ", "|">>

DiagnosticFor(d) ==
  <<" ", " ">> \o d[1] \o <<":", " ">> \o Join(<<"/">>, d[3])
  \o <<"#", "L">> \o Str(d[4])

\* The number of places of a sequence that hold x.
Count(seq, x) == Cardinality({i \in 1..Len(seq) : seq[i] = x})

(***************************************************************************)
(* The claims.                                                             *)
(***************************************************************************)
\* C1: when a name has two or more declarations in the scanned files (in one
\* file or in several, of the same kind or not), the run never reaches
\* render_table or write_text, docs/TYPE_INDEX.md stays as it was when the
\* run began, the loop's end finds the duplicates, and the run ends failed
\* with exit status 1.  (Stated as: all that holds, or no name has two.)
C1_DuplicatesFail ==
  \/ /\ writes = 0
     /\ dest = DestAtStart
     /\ pc \in {"main", "loop", "failed"}
     /\ (pc = "loop" /\ queue = <<>>) => Duplicates(seen) # <<>>
     /\ exitCode \in {<<>>, <<1>>}
     /\ pc = "failed" => exitCode = <<1>>
  \/ DuplicatesIn(Scanned) = {}

\* A failed run on two files that declare one name, with different kinds.
C1_Witness ==
  /\ pc = "failed"
  /\ exitCode = <<1>>
  /\ \E x, y \in Scanned : x[1] = y[1] /\ x[2] # y[2] /\ x[3] # y[3]

\* C2: when the run fails on duplicates, stderr holds, after its first line,
\* exactly one line for each declaration of each duplicated name, with the
\* declaration's name, path and line number, and no other line.
C2_DuplicateCompleteness ==
  pc = "failed" =>
    LET D == DuplicatesIn(Scanned)
    IN  /\ \A d \in D : Count(stderr, DiagnosticFor(d)) = 1
        /\ Len(stderr) = 1 + Cardinality(D)

\* A failed run with a name declared three times.
C2_Witness ==
  /\ pc = "failed"
  /\ \E x, y, z \in Scanned :
       x[1] = y[1] /\ y[1] = z[1] /\ x # y /\ y # z /\ x # z

\* C3: after a successful run the report holds exactly one table row for
\* each declaration of the scanned files and no other row, and the names of
\* the rows are in strictly ascending order of code points.
C3_ReportRows ==
  pc = "succeeded" =>
    LET rows == RowsOf(dest.text)
        S == Scanned
    IN  /\ Len(rows) = Cardinality(S)
        /\ \A d \in S : Count(rows, RowFor(d)) = 1
        /\ \A i \in 1..(Len(rows) - 1) : StrLess(RowName(rows[i]), RowName(rows[i + 1]))

\* A report of two rows, BB before Ba, with Ba declared in the file that is
\* scanned first.
C3_Witness ==
  /\ pc = "succeeded"
  /\ Len(RowsOf(dest.text)) = 2
  /\ \E x, y \in Scanned : x[1] = <<"B", "a">> /\ x[3] = LibRs
                            /\ y[1] = <<"B", "B">> /\ y[3] = SrcARs

\* C4: a second run on the tree of the first, with the files enumerated in
\* any order and the first run's report in place, ends with the same exit
\* status and the same lines on stderr and, when it succeeds, the same
\* report text and the same summary.
C4_Deterministic ==
  (rerun /\ Ended /\ tree = prev.tree) =>
    /\ exitCode = prev.exitCode
    /\ stderr = prev.stderr
    /\ stdout = prev.stdout
    /\ pc = "succeeded" => (prev.wrote /\ dest = prev.dest)

\* A second successful run on a tree of two scanned files with declarations,
\* after the first run wrote the report.
C4_Witness ==
  /\ rerun
  /\ pc = "succeeded"
  /\ tree = prev.tree
  /\ prev.wrote
  /\ \E x, y \in Scanned : x[3] = LibRs /\ y[3] = SrcARs

\* C5: a file with .git, target or node_modules as any segment of its path
\* yields no record: none in types or seen, no row of the report and no line
\* on stderr; the summary counts only the declarations of the other files,
\* and a run fails only on a name that two of those declare.
C5_IgnoredExcluded ==
  LET ignored == {rel \in DOMAIN tree : HasIgnoredSegment(rel)}
  IN  /\ \A i \in 1..Len(types) : relative_to(types[i][3], ROOT) \notin ignored
      /\ \A i \in 1..Len(seen) : \A j \in 1..Len(seen[i][2]) :
           relative_to(seen[i][2][j][1], ROOT) \notin ignored
      /\ pc = "succeeded" =>
           /\ LET rows == RowsOf(dest.text)
              IN  \A d \in DeclaredIn(ignored) : Count(rows, RowFor(d)) = 0
           /\ stdout = << <<"Wrote ">> \o Join(<<"/">>, DestRel) \o <<" with ">>
                          \o Str(Cardinality(Scanned)) \o <<" entries.">> >>
      /\ pc = "failed" =>
           /\ \A d \in DeclaredIn(ignored) : Count(stderr, DiagnosticFor(d)) = 0
           /\ DuplicatesIn(Scanned) # {}

\* A successful run on a tree where src/target/x/b.rs declares a name that a
\* scanned file declares too.
C5_Witness ==
  /\ pc = "succeeded"
  /\ Scanned # {}
  /\ \E d \in DeclaredIn({DeepRs}) : \E e \in Scanned : d[1] = e[1]

\* C7: a run on a tree with files that do not decode ends as the run on the
\* tree without them: the same records, exit status, lines on stderr,
\* summary and report; and no record is of a file that does not decode.
C7_DecodeFailureTolerated ==
  /\ \A i \in 1..Len(types) : tree[relative_to(types[i][3], ROOT)].ok
  /\ (rerun /\ Ended /\ tree # prev.tree) =>
       /\ types = prev.types
       /\ exitCode = prev.exitCode
       /\ stderr = prev.stderr
       /\ stdout = prev.stdout
       /\ pc = "succeeded" => (prev.wrote /\ dest = prev.dest)

\* The first run met lib.rs, which does not decode, and went on to a file
\* with declarations; the second run is on the tree without lib.rs.
C7_Witness ==
  /\ rerun
  /\ Ended
  /\ tree # prev.tree
  /\ LibRs \in DOMAIN prev.tree
  /\ ~prev.tree[LibRs].ok
  /\ prev.types # <<>>

\* Declaration x comes before y in file-then-line order.
LocLess(x, y) == PathLess(x[3], y[3]) \/ (x[3] = y[3] /\ x[4] < y[4])

\* The first declaration of a name among the declarations S.
FirstOf(S, name) ==
  CHOOSE x \in S :
    x[1] = name /\ \A y \in S : (y[1] = name /\ y # x) => LocLess(x, y)

\* Among the declarations S, the diagnostic line of x comes before that of y.
DiagnosticBefore(S, x, y) ==
  IF x[1] = y[1] THEN LocLess(x, y)
  ELSE LocLess(FirstOf(S, x[1]), FirstOf(S, y[1]))

\* C8: when the run has failed on duplicates, stderr holds, after its first
\* line, the lines of the duplicated names' declarations: those of a name
\* together and in file-then-line order, the names in the order of their
\* first declarations in the sorted walk; and the exit status is 1.
C8_DiagnosticOrder ==
  pc = "failed" =>
    LET D == DuplicatesIn(Scanned)
    IN  /\ Len(stderr) = 1 + Cardinality(D)
        /\ \A d \in D :
             stderr[2 + Cardinality({x \in D : DiagnosticBefore(D, x, d)})] = DiagnosticFor(d)
        /\ exitCode = <<1>>

\* Two duplicated names, Ba met before BB, and Ba declared in both files.
C8_Witness ==
  /\ pc = "failed"
  /\ LET D == DuplicatesIn(Scanned)
     IN  \E x, y, z, w \in D :
           /\ x[1] = <<"B", "a">> /\ y[1] = <<"B", "a">> /\ x[3] # y[3]
           /\ z[1] = <<"B", "B">> /\ w[1] = <<"B", "B">> /\ z # w
           /\ DiagnosticBefore(D, x, z)

\* One step of a run, or the start of the second run.
C9_Step ==
  /\ pc' # pc =>
       <<pc, pc'>> \in {<<"main", "loop">>, <<"loop", "render">>, <<"loop", "failed">>,
                        <<"render", "write">>, <<"write", "succeeded">>,
                        <<"succeeded", "main">>, <<"failed", "main">>}
  /\ pc' = pc => (pc = "loop" /\ Len(queue') < Len(queue))
  /\ pc' = "main" => (rerun' /\ ~rerun /\ writes' = 0)
  /\ (pc' # "main" /\ writes' # writes) =>
       (pc = "write" /\ pc' = "succeeded" /\ writes = 0 /\ writes' = 1)
  /\ dest' # dest => (pc = "write" /\ dest' = [exists |-> TRUE, text |-> output])
  /\ pc' = "succeeded" =>
       /\ writes' = 1
       /\ queue' = <<>>
       /\ stderr' = <<>>
       /\ \A i, j \in 1..Len(types') : i # j => types'[i][1] # types'[j][1]
       /\ exitCode' = <<0>>
  /\ pc' = "failed" => (writes' = 0 /\ dest' = dest /\ exitCode' = <<1>>)

\* C9: a run goes main, loop (one file after the other), then either failed,
\* with docs/TYPE_INDEX.md not written, or render, write, succeeded, with it
\* written once, by the last step, after the loop ended and no duplicate was
\* found; no step goes back, and nothing follows but another run.
C9_LinearPipeline == [][C9_Step]_vars

\* A successful run that scanned two declarations and wrote the report once.
C9_Witness ==
  /\ pc = "succeeded"
  /\ writes = 1
  /\ Len(types) = 2
  /\ dest.text = output

\* C10: every file with no ignored name among the segments of its path
\* relative to ROOT is scanned, whatever the parts of ROOT: once the loop has
\* ended, types holds each of its declarations.
C10_RootIndependent ==
  (pc \in {"render", "write", "succeeded", "failed"} \/ (pc = "loop" /\ queue = <<>>)) =>
    \A d \in DeclaredIn({rel \in DOMAIN tree : ~HasIgnoredSegment(rel)}) :
      \E i \in 1..Len(types) : types[i] = <<d[1], d[2], ROOT \o d[3], d[4]>>

====
